---- MODULE Spec2Model ----
(***************************************************************************)
(* A model of the fodder bot: audio segmentation (src/src/audio_utils.py), *)
(* sequential context-passing transcription (src/src/transcriber.py) and   *)
(* the delivery of the transcript in messages (src/src/discord_bot.py).    *)
(*                                                                         *)
(* A Python str is a sequence of one-character strings: "ab" is            *)
(* <<"a", "b">>, and len, slicing, strip and + are Len, SubSeq, strip and  *)
(* \o.                                                                     *)
(***************************************************************************)
EXTENDS Integers, Sequences, FiniteSets, TLC

\* ------------------------------------------------------------ strings

\* A character outside printable ASCII that has no escape in a string is
\* written as the one-character atom "U+" followed by its code point in
\* hexadecimal (U+3000 is the ideographic space).
\*
\* The characters str.strip() removes: the 29 characters str.isspace() accepts
\* (tab, line feed, vertical tab, form feed, carriage return, the separators
\* U+001C..U+001F, space, next line, no-break space and the Unicode spaces).
Whitespace == {
    "\t", "\n", "U+000B", "\f", "\r", "U+001C", "U+001D", "U+001E",
    "U+001F", " ", "U+0085", "U+00A0", "U+1680", "U+2000", "U+2001", "U+2002",
    "U+2003", "U+2004", "U+2005", "U+2006", "U+2007", "U+2008", "U+2009", "U+200A",
    "U+2028", "U+2029", "U+202F", "U+205F", "U+3000"}

\* The decimal digits of the scripts other than ASCII (Unicode category Nd,
\* Unicode 14.0, 650 characters in 61 blocks).
UnicodeDigit == {
    "U+0660", "U+0661", "U+0662", "U+0663", "U+0664", "U+0665", "U+0666", "U+0667", "U+0668", "U+0669",
    "U+06F0", "U+06F1", "U+06F2", "U+06F3", "U+06F4", "U+06F5", "U+06F6", "U+06F7", "U+06F8", "U+06F9",
    "U+07C0", "U+07C1", "U+07C2", "U+07C3", "U+07C4", "U+07C5", "U+07C6", "U+07C7", "U+07C8", "U+07C9",
    "U+0966", "U+0967", "U+0968", "U+0969", "U+096A", "U+096B", "U+096C", "U+096D", "U+096E", "U+096F",
    "U+09E6", "U+09E7", "U+09E8", "U+09E9", "U+09EA", "U+09EB", "U+09EC", "U+09ED", "U+09EE", "U+09EF",
    "U+0A66", "U+0A67", "U+0A68", "U+0A69", "U+0A6A", "U+0A6B", "U+0A6C", "U+0A6D", "U+0A6E", "U+0A6F",
    "U+0AE6", "U+0AE7", "U+0AE8", "U+0AE9", "U+0AEA", "U+0AEB", "U+0AEC", "U+0AED", "U+0AEE", "U+0AEF",
    "U+0B66", "U+0B67", "U+0B68", "U+0B69", "U+0B6A", "U+0B6B", "U+0B6C", "U+0B6D", "U+0B6E", "U+0B6F",
    "U+0BE6", "U+0BE7", "U+0BE8", "U+0BE9", "U+0BEA", "U+0BEB", "U+0BEC", "U+0BED", "U+0BEE", "U+0BEF",
    "U+0C66", "U+0C67", "U+0C68", "U+0C69", "U+0C6A", "U+0C6B", "U+0C6C", "U+0C6D", "U+0C6E", "U+0C6F",
    "U+0CE6", "U+0CE7", "U+0CE8", "U+0CE9", "U+0CEA", "U+0CEB", "U+0CEC", "U+0CED", "U+0CEE", "U+0CEF",
    "U+0D66", "U+0D67", "U+0D68", "U+0D69", "U+0D6A", "U+0D6B", "U+0D6C", "U+0D6D", "U+0D6E", "U+0D6F",
    "U+0DE6", "U+0DE7", "U+0DE8", "U+0DE9", "U+0DEA", "U+0DEB", "U+0DEC", "U+0DED", "U+0DEE", "U+0DEF",
    "U+0E50", "U+0E51", "U+0E52", "U+0E53", "U+0E54", "U+0E55", "U+0E56", "U+0E57", "U+0E58", "U+0E59",
    "U+0ED0", "U+0ED1", "U+0ED2", "U+0ED3", "U+0ED4", "U+0ED5", "U+0ED6", "U+0ED7", "U+0ED8", "U+0ED9",
    "U+0F20", "U+0F21", "U+0F22", "U+0F23", "U+0F24", "U+0F25", "U+0F26", "U+0F27", "U+0F28", "U+0F29",
    "U+1040", "U+1041", "U+1042", "U+1043", "U+1044", "U+1045", "U+1046", "U+1047", "U+1048", "U+1049",
    "U+1090", "U+1091", "U+1092", "U+1093", "U+1094", "U+1095", "U+1096", "U+1097", "U+1098", "U+1099",
    "U+17E0", "U+17E1", "U+17E2", "U+17E3", "U+17E4", "U+17E5", "U+17E6", "U+17E7", "U+17E8", "U+17E9",
    "U+1810", "U+1811", "U+1812", "U+1813", "U+1814", "U+1815", "U+1816", "U+1817", "U+1818", "U+1819",
    "U+1946", "U+1947", "U+1948", "U+1949", "U+194A", "U+194B", "U+194C", "U+194D", "U+194E", "U+194F",
    "U+19D0", "U+19D1", "U+19D2", "U+19D3", "U+19D4", "U+19D5", "U+19D6", "U+19D7", "U+19D8", "U+19D9",
    "U+1A80", "U+1A81", "U+1A82", "U+1A83", "U+1A84", "U+1A85", "U+1A86", "U+1A87", "U+1A88", "U+1A89",
    "U+1A90", "U+1A91", "U+1A92", "U+1A93", "U+1A94", "U+1A95", "U+1A96", "U+1A97", "U+1A98", "U+1A99",
    "U+1B50", "U+1B51", "U+1B52", "U+1B53", "U+1B54", "U+1B55", "U+1B56", "U+1B57", "U+1B58", "U+1B59",
    "U+1BB0", "U+1BB1", "U+1BB2", "U+1BB3", "U+1BB4", "U+1BB5", "U+1BB6", "U+1BB7", "U+1BB8", "U+1BB9",
    "U+1C40", "U+1C41", "U+1C42", "U+1C43", "U+1C44", "U+1C45", "U+1C46", "U+1C47", "U+1C48", "U+1C49",
    "U+1C50", "U+1C51", "U+1C52", "U+1C53", "U+1C54", "U+1C55", "U+1C56", "U+1C57", "U+1C58", "U+1C59",
    "U+A620", "U+A621", "U+A622", "U+A623", "U+A624", "U+A625", "U+A626", "U+A627", "U+A628", "U+A629",
    "U+A8D0", "U+A8D1", "U+A8D2", "U+A8D3", "U+A8D4", "U+A8D5", "U+A8D6", "U+A8D7", "U+A8D8", "U+A8D9",
    "U+A900", "U+A901", "U+A902", "U+A903", "U+A904", "U+A905", "U+A906", "U+A907", "U+A908", "U+A909",
    "U+A9D0", "U+A9D1", "U+A9D2", "U+A9D3", "U+A9D4", "U+A9D5", "U+A9D6", "U+A9D7", "U+A9D8", "U+A9D9",
    "U+A9F0", "U+A9F1", "U+A9F2", "U+A9F3", "U+A9F4", "U+A9F5", "U+A9F6", "U+A9F7", "U+A9F8", "U+A9F9",
    "U+AA50", "U+AA51", "U+AA52", "U+AA53", "U+AA54", "U+AA55", "U+AA56", "U+AA57", "U+AA58", "U+AA59",
    "U+ABF0", "U+ABF1", "U+ABF2", "U+ABF3", "U+ABF4", "U+ABF5", "U+ABF6", "U+ABF7", "U+ABF8", "U+ABF9",
    "U+FF10", "U+FF11", "U+FF12", "U+FF13", "U+FF14", "U+FF15", "U+FF16", "U+FF17", "U+FF18", "U+FF19",
    "U+104A0", "U+104A1", "U+104A2", "U+104A3", "U+104A4", "U+104A5", "U+104A6", "U+104A7", "U+104A8", "U+104A9",
    "U+10D30", "U+10D31", "U+10D32", "U+10D33", "U+10D34", "U+10D35", "U+10D36", "U+10D37", "U+10D38", "U+10D39",
    "U+11066", "U+11067", "U+11068", "U+11069", "U+1106A", "U+1106B", "U+1106C", "U+1106D", "U+1106E", "U+1106F",
    "U+110F0", "U+110F1", "U+110F2", "U+110F3", "U+110F4", "U+110F5", "U+110F6", "U+110F7", "U+110F8", "U+110F9",
    "U+11136", "U+11137", "U+11138", "U+11139", "U+1113A", "U+1113B", "U+1113C", "U+1113D", "U+1113E", "U+1113F",
    "U+111D0", "U+111D1", "U+111D2", "U+111D3", "U+111D4", "U+111D5", "U+111D6", "U+111D7", "U+111D8", "U+111D9",
    "U+112F0", "U+112F1", "U+112F2", "U+112F3", "U+112F4", "U+112F5", "U+112F6", "U+112F7", "U+112F8", "U+112F9",
    "U+11450", "U+11451", "U+11452", "U+11453", "U+11454", "U+11455", "U+11456", "U+11457", "U+11458", "U+11459",
    "U+114D0", "U+114D1", "U+114D2", "U+114D3", "U+114D4", "U+114D5", "U+114D6", "U+114D7", "U+114D8", "U+114D9",
    "U+11650", "U+11651", "U+11652", "U+11653", "U+11654", "U+11655", "U+11656", "U+11657", "U+11658", "U+11659",
    "U+116C0", "U+116C1", "U+116C2", "U+116C3", "U+116C4", "U+116C5", "U+116C6", "U+116C7", "U+116C8", "U+116C9",
    "U+11730", "U+11731", "U+11732", "U+11733", "U+11734", "U+11735", "U+11736", "U+11737", "U+11738", "U+11739",
    "U+118E0", "U+118E1", "U+118E2", "U+118E3", "U+118E4", "U+118E5", "U+118E6", "U+118E7", "U+118E8", "U+118E9",
    "U+11950", "U+11951", "U+11952", "U+11953", "U+11954", "U+11955", "U+11956", "U+11957", "U+11958", "U+11959",
    "U+11C50", "U+11C51", "U+11C52", "U+11C53", "U+11C54", "U+11C55", "U+11C56", "U+11C57", "U+11C58", "U+11C59",
    "U+11D50", "U+11D51", "U+11D52", "U+11D53", "U+11D54", "U+11D55", "U+11D56", "U+11D57", "U+11D58", "U+11D59",
    "U+11DA0", "U+11DA1", "U+11DA2", "U+11DA3", "U+11DA4", "U+11DA5", "U+11DA6", "U+11DA7", "U+11DA8", "U+11DA9",
    "U+16A60", "U+16A61", "U+16A62", "U+16A63", "U+16A64", "U+16A65", "U+16A66", "U+16A67", "U+16A68", "U+16A69",
    "U+16AC0", "U+16AC1", "U+16AC2", "U+16AC3", "U+16AC4", "U+16AC5", "U+16AC6", "U+16AC7", "U+16AC8", "U+16AC9",
    "U+16B50", "U+16B51", "U+16B52", "U+16B53", "U+16B54", "U+16B55", "U+16B56", "U+16B57", "U+16B58", "U+16B59",
    "U+1D7CE", "U+1D7CF", "U+1D7D0", "U+1D7D1", "U+1D7D2", "U+1D7D3", "U+1D7D4", "U+1D7D5", "U+1D7D6", "U+1D7D7",
    "U+1D7D8", "U+1D7D9", "U+1D7DA", "U+1D7DB", "U+1D7DC", "U+1D7DD", "U+1D7DE", "U+1D7DF", "U+1D7E0", "U+1D7E1",
    "U+1D7E2", "U+1D7E3", "U+1D7E4", "U+1D7E5", "U+1D7E6", "U+1D7E7", "U+1D7E8", "U+1D7E9", "U+1D7EA", "U+1D7EB",
    "U+1D7EC", "U+1D7ED", "U+1D7EE", "U+1D7EF", "U+1D7F0", "U+1D7F1", "U+1D7F2", "U+1D7F3", "U+1D7F4", "U+1D7F5",
    "U+1D7F6", "U+1D7F7", "U+1D7F8", "U+1D7F9", "U+1D7FA", "U+1D7FB", "U+1D7FC", "U+1D7FD", "U+1D7FE", "U+1D7FF",
    "U+1E140", "U+1E141", "U+1E142", "U+1E143", "U+1E144", "U+1E145", "U+1E146", "U+1E147", "U+1E148", "U+1E149",
    "U+1E2F0", "U+1E2F1", "U+1E2F2", "U+1E2F3", "U+1E2F4", "U+1E2F5", "U+1E2F6", "U+1E2F7", "U+1E2F8", "U+1E2F9",
    "U+1E950", "U+1E951", "U+1E952", "U+1E953", "U+1E954", "U+1E955", "U+1E956", "U+1E957", "U+1E958", "U+1E959",
    "U+1FBF0", "U+1FBF1", "U+1FBF2", "U+1FBF3", "U+1FBF4", "U+1FBF5", "U+1FBF6", "U+1FBF7", "U+1FBF8", "U+1FBF9"}

AsciiDigit == {"0", "1", "2", "3", "4", "5", "6", "7", "8", "9"}

\* The characters \d matches in a pattern over str: every decimal digit.
Digit == AsciiDigit \cup UnicodeDigit

\* The digits an integer is formatted with (f-string, str(int)).
DigitChars == <<"0", "1", "2", "3", "4", "5", "6", "7", "8", "9">>

\* The smallest element of a non-empty set of integers.
MinOf(S) == CHOOSE x \in S : \A y \in S : x <= y

\* c repeated n times.
Rep(c, n) == [k \in 1..n |-> c]

\* str(n) of a natural number, as the f-strings format it.
RECURSIVE IntStr(_)
IntStr(n) ==
    IF n < 10 THEN <<DigitChars[n + 1]>>
    ELSE IntStr(n \div 10) \o <<DigitChars[(n % 10) + 1]>>

\* s.strip(): s without its leading and trailing whitespace.
strip(s) ==
    IF \A k \in 1..Len(s) : s[k] \in Whitespace THEN <<>>
    ELSE LET n == Len(s)
             first == CHOOSE i \in 1..n :
                         /\ s[i] \notin Whitespace
                         /\ \A j \in 1..(i - 1) : s[j] \in Whitespace
             back == CHOOSE i \in 1..n :
                        /\ s[n + 1 - i] \notin Whitespace
                        /\ \A j \in 1..(i - 1) : s[n + 1 - j] \in Whitespace
         IN  SubSeq(s, first, n + 1 - back)

\* The strings of a sequence of strings, one after another.
RECURSIVE Concat(_)
Concat(ss) == IF ss = <<>> THEN <<>> ELSE Head(ss) \o Concat(Tail(ss))

\* " ".join(ss)
RECURSIVE JoinSp(_)
JoinSp(ss) ==
    IF ss = <<>> THEN <<>>
    ELSE IF Len(ss) = 1 THEN ss[1]
    ELSE ss[1] \o <<" ">> \o JoinSp(Tail(ss))

\* [s[i : i + n] for i in range(0, len(s), n)]
Slices(s, n) ==
    [k \in 1..((Len(s) + n - 1) \div n) |->
        SubSeq(s, (k - 1) * n + 1, IF k * n < Len(s) THEN k * n ELSE Len(s))]

\* ---------------------------------------------------------- assembler
\* on_message, src/src/discord_bot.py lines 88-151.

\* Discord's message limit, the test of line 89.
DiscordLimit == 2000

max_content_length == 2000

\* The index after the run of digits of s that starts at p (p when there
\* is none).
DigitsEnd(s, p) ==
    CHOOSE j \in p..(Len(s) + 1) :
        /\ (j > Len(s) \/ s[j] \notin Digit)
        /\ \A k \in p..(j - 1) : s[k] \in Digit

\* Whether the regular expression \(\d+/\d+\) matches s at index p.
MarkerAt(s, p) ==
    /\ p <= Len(s)
    /\ s[p] = "("
    /\ LET a == DigitsEnd(s, p + 1)
       IN  /\ a > p + 1
           /\ a <= Len(s)
           /\ s[a] = "/"
           /\ LET b == DigitsEnd(s, a + 1)
              IN  /\ b > a + 1
                  /\ b <= Len(s)
                  /\ s[b] = ")"

\* re.split(chunk_pattern, s) for the lookahead (?=\(\d+/\d+\)): the
\* pieces of s between the indices where a marker starts.
re_split(s) ==
    LET cuts == {p \in 1..Len(s) : MarkerAt(s, p)}
        n == Cardinality(cuts)
        cut[k \in 0..(n + 1)] ==
            IF k = 0 THEN 1
            ELSE IF k = n + 1 THEN Len(s) + 1
            ELSE MinOf({p \in cuts : k = 1 \/ p > cut[k - 1]})
    IN  [k \in 1..(n + 1) |-> SubSeq(s, cut[k - 1], cut[k] - 1)]

\* [chunk.strip() for chunk in ss if chunk.strip()]
RECURSIVE StripNonEmpty(_)
StripNonEmpty(ss) ==
    IF ss = <<>> THEN <<>>
    ELSE LET c == strip(Head(ss))
         IN  (IF c = <<>> THEN <<>> ELSE <<c>>) \o StripNonEmpty(Tail(ss))

\* Lines 97-101: the trimmed, non-empty fragments of the transcript.
SplitChunks(full) == StripNonEmpty(re_split(full))

\* PackChunk without lines 121-132: a fragment longer than a message is
\* kept whole.
PackChunkNoHardSplit(st, chunk) ==
    IF Len(st.current_message) + Len(chunk) + 1 <= max_content_length
    THEN [messages |-> st.messages,
          current_message |->
              IF st.current_message # <<>>
              THEN st.current_message \o <<" ">> \o chunk
              ELSE chunk]
    ELSE [messages |-> IF st.current_message # <<>>
                       THEN Append(st.messages, st.current_message)
                       ELSE st.messages,
          current_message |-> chunk]

\* PackChunk with < for the <= of line 108: a fragment that fills the
\* message exactly starts a new one.
PackChunkStrictFit(st, chunk) ==
    IF Len(st.current_message) + Len(chunk) + 1 < max_content_length
    THEN [messages |-> st.messages,
          current_message |->
              IF st.current_message # <<>>
              THEN st.current_message \o <<" ">> \o chunk
              ELSE chunk]
    ELSE LET flushed == IF st.current_message # <<>>
                        THEN Append(st.messages, st.current_message)
                        ELSE st.messages
         IN  IF Len(chunk) > max_content_length
             THEN LET chunk_messages == Slices(chunk, max_content_length)
                      n == Len(chunk_messages)
                  IN  [messages |-> flushed \o SubSeq(chunk_messages, 1, n - 1),
                       current_message |-> chunk_messages[n]]
             ELSE [messages |-> flushed, current_message |-> chunk]

\* PackChunk that, when the fragment does not fit, joins it to the current
\* message all the same and cuts the whole into slices.
PackChunkSliceJoined(st, chunk) ==
    IF Len(st.current_message) + Len(chunk) + 1 <= max_content_length
    THEN [messages |-> st.messages,
          current_message |->
              IF st.current_message # <<>>
              THEN st.current_message \o <<" ">> \o chunk
              ELSE chunk]
    ELSE LET joined == IF st.current_message # <<>>
                       THEN st.current_message \o <<" ">> \o chunk
                       ELSE chunk
             chunk_messages == Slices(joined, max_content_length)
             n == Len(chunk_messages)
         IN  [messages |-> st.messages \o SubSeq(chunk_messages, 1, n - 1),
              current_message |-> chunk_messages[n]]

\* PackChunk that drops the message in progress when a fragment does not
\* fit (lines 116-117 left out).
PackChunkNoFlush(st, chunk) ==
    IF Len(st.current_message) + Len(chunk) + 1 <= max_content_length
    THEN [messages |-> st.messages,
          current_message |->
              IF st.current_message # <<>>
              THEN st.current_message \o <<" ">> \o chunk
              ELSE chunk]
    ELSE IF Len(chunk) > max_content_length
         THEN LET chunk_messages == Slices(chunk, max_content_length)
                  n == Len(chunk_messages)
              IN  [messages |-> st.messages \o SubSeq(chunk_messages, 1, n - 1),
                   current_message |-> chunk_messages[n]]
         ELSE [messages |-> st.messages, current_message |-> chunk]

\* One pass of the loop of lines 105-132 for fragment chunk, on
\* st = [messages, current_message].
PackChunk(st, chunk) ==
    IF Len(st.current_message) + Len(chunk) + 1 <= max_content_length
    THEN [messages |-> st.messages,
          current_message |->
              IF st.current_message # <<>>
              THEN st.current_message \o <<" ">> \o chunk
              ELSE chunk]
    ELSE LET flushed == IF st.current_message # <<>>
                        THEN Append(st.messages, st.current_message)
                        ELSE st.messages
         IN  IF Len(chunk) > max_content_length
             THEN LET chunk_messages == Slices(chunk, max_content_length)
                      n == Len(chunk_messages)
                  IN  [messages |-> flushed \o SubSeq(chunk_messages, 1, n - 1),
                       current_message |-> chunk_messages[n]]
             ELSE [messages |-> flushed, current_message |-> chunk]

\* The loop of lines 105-132 over the fragments cs.
RECURSIVE PackAll(_, _)
PackAll(st, cs) ==
    IF cs = <<>> THEN st ELSE PackAll(PackChunk(st, Head(cs)), Tail(cs))

\* PackMessages without the fallback of lines 138-144.
PackMessagesNoFallback(cs, full) ==
    LET st == PackAll([messages |-> <<>>, current_message |-> <<>>], cs)
    IN  IF st.current_message # <<>>
        THEN Append(st.messages, st.current_message)
        ELSE st.messages

\* Lines 103-144: the units of a transcript longer than the limit, cs its
\* fragments.
PackMessages(cs, full) ==
    IF cs # <<>>
    THEN LET st == PackAll([messages |-> <<>>, current_message |-> <<>>], cs)
         IN  IF st.current_message # <<>>
             THEN Append(st.messages, st.current_message)
             ELSE st.messages
    ELSE Slices(full, max_content_length)

\* Lines 93-144.
SplitMessages(full) == PackMessages(SplitChunks(full), full)

\* Lines 89-151: the units on_message delivers for a transcript.
Units(full) ==
    IF Len(full) > DiscordLimit THEN SplitMessages(full) ELSE <<full>>

\* The grave accent (U+0060), which a TLA+ string cannot hold: the one
\* character of the model written as a name.
Grave == "GRAVE"

\* The code fence the caller wraps around a unit, lines 148 and 151.
Fenced(msg_content) ==
    <<Grave, Grave, Grave, "\n">> \o msg_content
        \o <<"\n", Grave, Grave, Grave>>

\* -------------------------------------------------------- transcriber
\* src/src/transcriber.py

\* Python's None: a value that equals no str.
None == <<"None">>

TimeoutMarker ==
    <<"[", "T", "r", "a", "n", "s", "c", "r", "i", "p", "t", "i", "o",
      "n", " ", "t", "i", "m", "e", "o", "u", "t", "]">>

EmptyPrefix ==
    <<"[", "E", "m", "p", "t", "y", " ", "t", "r", "a", "n", "s", "c",
      "r", "i", "p", "t", "i", "o", "n", " ", "f", "o", "r", " ", "c",
      "h", "u", "n", "k", " ">>

ErrorPrefix ==
    <<"[", "E", "r", "r", "o", "r", " ", "i", "n", " ", "c", "h", "u",
      "n", "k", " ">>

\* f"[Empty transcription for chunk {i + 1}]", line 237.
EmptyMarker(i) == EmptyPrefix \o IntStr(i + 1) \o <<"]">>

\* f"[Error in chunk {i + 1}]", line 243.
ErrorMarker(i) == ErrorPrefix \o IntStr(i + 1) \o <<"]">>

\* _build_chunk_prompt, lines 51-118: the literal parts of the prompts.

\* "Give a thorough description of the audio."
OnlyPrompt ==
    <<"G", "i", "v", "e", " ", "a", " ", "t", "h", "o", "r", "o", "u", "g",
      "h", " ", "d", "e", "s", "c", "r", "i", "p", "t", "i", "o", "n", " ",
      "o", "f", " ", "t", "h", "e", " ", "a", "u", "d", "i", "o", ".">>

\* "Give a thorough description of the chunked audio. "
PromptHead ==
    <<"G", "i", "v", "e", " ", "a", " ", "t", "h", "o", "r", "o", "u", "g",
      "h", " ", "d", "e", "s", "c", "r", "i", "p", "t", "i", "o", "n", " ",
      "o", "f", " ", "t", "h", "e", " ", "c", "h", "u", "n", "k", "e", "d",
      " ", "a", "u", "d", "i", "o", ".", " ">>

\* "You are currently listening to part "
ListeningPart ==
    <<"Y", "o", "u", " ", "a", "r", "e", " ", "c", "u", "r", "r", "e", "n",
      "t", "l", "y", " ", "l", "i", "s", "t", "e", "n", "i", "n", "g", " ",
      "t", "o", " ", "p", "a", "r", "t", " ">>

\* "You are currently listening to the final chunk"
ListeningFinal ==
    <<"Y", "o", "u", " ", "a", "r", "e", " ", "c", "u", "r", "r", "e", "n",
      "t", "l", "y", " ", "l", "i", "s", "t", "e", "n", "i", "n", "g", " ",
      "t", "o", " ", "t", "h", "e", " ", "f", "i", "n", "a", "l", " ", "c",
      "h", "u", "n", "k">>

\* " (part "
OpenPart ==
    <<" ", "(", "p", "a", "r", "t", " ">>

\* " meaning it will abruptly end and may lack some context. The rest of the audio will be described in a later API request and concatenated to this response."
FirstTail ==
    <<" ", "m", "e", "a", "n", "i", "n", "g", " ", "i", "t", " ", "w", "i",
      "l", "l", " ", "a", "b", "r", "u", "p", "t", "l", "y", " ", "e", "n",
      "d", " ", "a", "n", "d", " ", "m", "a", "y", " ", "l", "a", "c", "k",
      " ", "s", "o", "m", "e", " ", "c", "o", "n", "t", "e", "x", "t", ".",
      " ", "T", "h", "e", " ", "r", "e", "s", "t", " ", "o", "f", " ", "t",
      "h", "e", " ", "a", "u", "d", "i", "o", " ", "w", "i", "l", "l", " ",
      "b", "e", " ", "d", "e", "s", "c", "r", "i", "b", "e", "d", " ", "i",
      "n", " ", "a", " ", "l", "a", "t", "e", "r", " ", "A", "P", "I", " ",
      "r", "e", "q", "u", "e", "s", "t", " ", "a", "n", "d", " ", "c", "o",
      "n", "c", "a", "t", "e", "n", "a", "t", "e", "d", " ", "t", "o", " ",
      "t", "h", "i", "s", " ", "r", "e", "s", "p", "o", "n", "s", "e", ".">>

\* " meaning it will abruptly start/end and may lack some context. Continue from where the previous request left off and note that certain basic details have already been described. Full context: "
MiddleTail ==
    <<" ", "m", "e", "a", "n", "i", "n", "g", " ", "i", "t", " ", "w", "i",
      "l", "l", " ", "a", "b", "r", "u", "p", "t", "l", "y", " ", "s", "t",
      "a", "r", "t", "/", "e", "n", "d", " ", "a", "n", "d", " ", "m", "a",
      "y", " ", "l", "a", "c", "k", " ", "s", "o", "m", "e", " ", "c", "o",
      "n", "t", "e", "x", "t", ".", " ", "C", "o", "n", "t", "i", "n", "u",
      "e", " ", "f", "r", "o", "m", " ", "w", "h", "e", "r", "e", " ", "t",
      "h", "e", " ", "p", "r", "e", "v", "i", "o", "u", "s", " ", "r", "e",
      "q", "u", "e", "s", "t", " ", "l", "e", "f", "t", " ", "o", "f", "f",
      " ", "a", "n", "d", " ", "n", "o", "t", "e", " ", "t", "h", "a", "t",
      " ", "c", "e", "r", "t", "a", "i", "n", " ", "b", "a", "s", "i", "c",
      " ", "d", "e", "t", "a", "i", "l", "s", " ", "h", "a", "v", "e", " ",
      "a", "l", "r", "e", "a", "d", "y", " ", "b", "e", "e", "n", " ", "d",
      "e", "s", "c", "r", "i", "b", "e", "d", ".", " ", "F", "u", "l", "l",
      " ", "c", "o", "n", "t", "e", "x", "t", ":", " ">>

\* " meaning it will abruptly start and may lack some context. Continue from where the previous request left off and note that certain basic details (like initial audio quality) have already been described. Full context: "
FinalTailOfTwo ==
    <<" ", "m", "e", "a", "n", "i", "n", "g", " ", "i", "t", " ", "w", "i",
      "l", "l", " ", "a", "b", "r", "u", "p", "t", "l", "y", " ", "s", "t",
      "a", "r", "t", " ", "a", "n", "d", " ", "m", "a", "y", " ", "l", "a",
      "c", "k", " ", "s", "o", "m", "e", " ", "c", "o", "n", "t", "e", "x",
      "t", ".", " ", "C", "o", "n", "t", "i", "n", "u", "e", " ", "f", "r",
      "o", "m", " ", "w", "h", "e", "r", "e", " ", "t", "h", "e", " ", "p",
      "r", "e", "v", "i", "o", "u", "s", " ", "r", "e", "q", "u", "e", "s",
      "t", " ", "l", "e", "f", "t", " ", "o", "f", "f", " ", "a", "n", "d",
      " ", "n", "o", "t", "e", " ", "t", "h", "a", "t", " ", "c", "e", "r",
      "t", "a", "i", "n", " ", "b", "a", "s", "i", "c", " ", "d", "e", "t",
      "a", "i", "l", "s", " ", "(", "l", "i", "k", "e", " ", "i", "n", "i",
      "t", "i", "a", "l", " ", "a", "u", "d", "i", "o", " ", "q", "u", "a",
      "l", "i", "t", "y", ")", " ", "h", "a", "v", "e", " ", "a", "l", "r",
      "e", "a", "d", "y", " ", "b", "e", "e", "n", " ", "d", "e", "s", "c",
      "r", "i", "b", "e", "d", ".", " ", "F", "u", "l", "l", " ", "c", "o",
      "n", "t", "e", "x", "t", ":", " ">>

\* ") meaning it will abruptly start and may lack some context. Continue from where the previous request left off and note that certain basic details have already been described. Full context: "
FinalTail ==
    <<")", " ", "m", "e", "a", "n", "i", "n", "g", " ", "i", "t", " ", "w",
      "i", "l", "l", " ", "a", "b", "r", "u", "p", "t", "l", "y", " ", "s",
      "t", "a", "r", "t", " ", "a", "n", "d", " ", "m", "a", "y", " ", "l",
      "a", "c", "k", " ", "s", "o", "m", "e", " ", "c", "o", "n", "t", "e",
      "x", "t", ".", " ", "C", "o", "n", "t", "i", "n", "u", "e", " ", "f",
      "r", "o", "m", " ", "w", "h", "e", "r", "e", " ", "t", "h", "e", " ",
      "p", "r", "e", "v", "i", "o", "u", "s", " ", "r", "e", "q", "u", "e",
      "s", "t", " ", "l", "e", "f", "t", " ", "o", "f", "f", " ", "a", "n",
      "d", " ", "n", "o", "t", "e", " ", "t", "h", "a", "t", " ", "c", "e",
      "r", "t", "a", "i", "n", " ", "b", "a", "s", "i", "c", " ", "d", "e",
      "t", "a", "i", "l", "s", " ", "h", "a", "v", "e", " ", "a", "l", "r",
      "e", "a", "d", "y", " ", "b", "e", "e", "n", " ", "d", "e", "s", "c",
      "r", "i", "b", "e", "d", ".", " ", "F", "u", "l", "l", " ", "c", "o",
      "n", "t", "e", "x", "t", ":", " ">>

\* What an f-string makes of a str or of None.
Format(x) == IF x = None THEN <<"N", "o", "n", "e">> ELSE x

\* "{chunk_number}/{total_chunks}"
PartOf(chunk_number, total_chunks) ==
    IntStr(chunk_number) \o <<"/">> \o IntStr(total_chunks)

\* _build_chunk_prompt with the first chunk of several taken for a middle
\* one.
PromptFirstAsMiddle(chunk_index, total_chunks, previous_context) ==
    IF total_chunks = 1 THEN OnlyPrompt
    ELSE PromptHead \o ListeningPart
             \o PartOf(chunk_index + 1, total_chunks) \o MiddleTail
             \o Format(previous_context)

\* _build_chunk_prompt with the final chunk always named by its part.
PromptFinalNamesPart(chunk_index, total_chunks, previous_context) ==
    IF total_chunks = 1 THEN OnlyPrompt
    ELSE IF chunk_index = 0
    THEN PromptHead \o ListeningPart
             \o PartOf(chunk_index + 1, total_chunks) \o FirstTail
    ELSE IF chunk_index = total_chunks - 1
    THEN PromptHead \o ListeningFinal \o OpenPart
             \o PartOf(chunk_index + 1, total_chunks) \o FinalTail
             \o Format(previous_context)
    ELSE PromptHead \o ListeningPart
             \o PartOf(chunk_index + 1, total_chunks) \o MiddleTail
             \o Format(previous_context)

\* _build_chunk_prompt(chunk_index, total_chunks, previous_context),
\* lines 72-118.
build_chunk_prompt(chunk_index, total_chunks, previous_context) ==
    LET chunk_number == chunk_index + 1
    IN  IF total_chunks = 1 THEN OnlyPrompt
        ELSE IF chunk_index = 0
        THEN PromptHead \o ListeningPart
                 \o PartOf(chunk_number, total_chunks) \o FirstTail
        ELSE IF chunk_index = total_chunks - 1
        THEN IF total_chunks = 2
             THEN PromptHead \o ListeningFinal \o FinalTailOfTwo
                      \o Format(previous_context)
             ELSE PromptHead \o ListeningFinal \o OpenPart
                      \o PartOf(chunk_number, total_chunks) \o FinalTail
                      \o Format(previous_context)
        ELSE PromptHead \o ListeningPart
                 \o PartOf(chunk_number, total_chunks) \o MiddleTail
                 \o Format(previous_context)

\* What one call of transcribe meets, o.kind:
\*   "unreadable"  open() fails in _encode_audio (line 142, outside the try)
\*   "timeout"     asyncio.timeout expires (line 180)
\*   "error"       the request or the stream raises (line 183)
\*   "completed"   the stream ends; o.deltas are its chunks' contents, the
\*                 empty string for a chunk with none (lines 173-178)
\* The result of the call: the exception leaves it (raised) or it returns
\* value.
transcribe(o) ==
    IF o.kind = "unreadable" THEN [raised |-> TRUE, value |-> <<>>]
    ELSE IF o.kind = "timeout" THEN [raised |-> FALSE, value |-> TimeoutMarker]
    ELSE IF o.kind = "error" THEN [raised |-> FALSE, value |-> <<>>]
    ELSE [raised |-> FALSE, value |-> Concat(o.deltas)]

\* The previous_context argument of lines 221-223.
ContextArg(accumulated_context) ==
    IF accumulated_context # <<>> THEN accumulated_context ELSE None

\* LoopBody without the except of lines 240-243 recording the segment: a
\* segment whose call raises leaves no entry.
LoopBodyDropsRaised(st, i, o) ==
    LET chunk_transcription == transcribe(o)
    IN  IF chunk_transcription.raised
        THEN st
        ELSE IF chunk_transcription.value # <<>>
        THEN [chunk_transcriptions |->
                  Append(st.chunk_transcriptions, chunk_transcription.value),
              accumulated_context |->
                  IF st.accumulated_context # <<>>
                  THEN st.accumulated_context \o <<" ">>
                           \o chunk_transcription.value
                  ELSE chunk_transcription.value]
        ELSE [chunk_transcriptions |->
                  Append(st.chunk_transcriptions, EmptyMarker(i)),
              accumulated_context |-> st.accumulated_context]

\* One pass of the loop of lines 214-243 for segment i, on
\* st = [chunk_transcriptions, accumulated_context].
LoopBody(st, i, o) ==
    LET chunk_transcription == transcribe(o)
    IN  IF chunk_transcription.raised
        THEN [chunk_transcriptions |->
                  Append(st.chunk_transcriptions, ErrorMarker(i)),
              accumulated_context |-> st.accumulated_context]
        ELSE IF chunk_transcription.value # <<>>
        THEN [chunk_transcriptions |->
                  Append(st.chunk_transcriptions, chunk_transcription.value),
              accumulated_context |->
                  IF st.accumulated_context # <<>>
                  THEN st.accumulated_context \o <<" ">>
                           \o chunk_transcription.value
                  ELSE chunk_transcription.value]
        ELSE [chunk_transcriptions |->
                  Append(st.chunk_transcriptions, EmptyMarker(i)),
              accumulated_context |-> st.accumulated_context]

\* f"({chunk_number}/{total_chunks})", line 251.
Label(chunk_number, total_chunks) ==
    <<"(">> \o IntStr(chunk_number) \o <<"/">> \o IntStr(total_chunks)
        \o <<")">>

\* The loop of lines 247-254: the entries numbered and followed by a space.
RECURSIVE Numbered(_, _, _)
Numbered(ts, i, total_chunks) ==
    IF i >= Len(ts) THEN <<>>
    ELSE (IF total_chunks > 1
          THEN Label(i + 1, total_chunks) \o <<" ">> \o ts[i + 1] \o <<" ">>
          ELSE ts[i + 1] \o <<" ">>)
         \o Numbered(ts, i + 1, total_chunks)

\* Lines 245-256: the transcript of the per-segment entries.
Combine(ts, total_chunks) == strip(Numbered(ts, 0, total_chunks))

\* The loop of lines 214-243 over what the calls meet, os, from segment i.
RECURSIVE LoopAll(_, _, _)
LoopAll(st, i, os) ==
    IF i >= Len(os) THEN st
    ELSE LoopAll(LoopBody(st, i, os[i + 1]), i + 1, os)

\* transcribe_chunks, lines 204-256, as a function of what its calls meet.
transcribe_chunks(os) ==
    IF Len(os) = 1 THEN transcribe(os[1])
    ELSE [raised |-> FALSE,
          value |-> Combine(
              LoopAll([chunk_transcriptions |-> <<>>,
                       accumulated_context |-> <<>>], 0, os).chunk_transcriptions,
              Len(os))]

\* ------------------------------------------------------------- paths

ChunkDir ==
    <<"t", "e", "m", "p", "_", "c", "h", "u", "n", "k", "s", "/", "c",
      "h", "u", "n", "k", "_">>

Wav == <<".", "w", "a", "v">>

Downloads == <<"d", "o", "w", "n", "l", "o", "a", "d", "s", "/">>

\* os.path.join("temp_chunks", f"chunk_{i}.wav"), audio_utils.py line 93.
ChunkPath(i) == ChunkDir \o IntStr(i) \o Wav

\* f"downloads/{attachment.filename}", discord_bot.py line 57.
DownloadPath(filename) == Downloads \o filename

\* -------------------------------------------------------------- state

VARIABLES
    apc,                 \* "split", "send", "done" ("off": no delivery)
    full_transcription,  \* discord_bot.py line 66
    text_chunks,         \* discord_bot.py line 98
    messages,            \* discord_bot.py line 93
    sent                 \* what channel.send was given, in order

asm_vars == <<apc, full_transcription, text_chunks, messages, sent>>

VARIABLES
    files,     \* the file at each path: what it holds, Absent when none
    temp_dir,  \* whether the directory temp_chunks exists
    writers,   \* the handlers that have written each path
    hs         \* each on_message handler's frame

h_vars == <<files, temp_dir, writers, hs>>

\* One call of chunk_audio on its own.
VARIABLES
    spc,           \* "call", "returned" ("off": no call)
    s_audio_path,  \* the argument audio_path
    s_source,      \* what the file at audio_path holds when called
    s_fault,       \* where the call meets an exception, if anywhere
    s_result       \* what the call returned

seg_vars == <<spc, s_audio_path, s_source, s_fault, s_result>>

\* ------------------------------------------- one run of transcribe_chunks
\* The run of lines 204-256 step by step: a step ends where the code
\* awaits the service.

VARIABLES
    tpc,                   \* "call", "await", "done", "raised" ("off": no run)
    chunk_paths,           \* the argument
    ti,                    \* i of the loop of line 214
    chunk_transcriptions,  \* line 211
    accumulated_context,   \* line 212
    calls,                 \* the calls of transcribe made, with their arguments
    outcomes,              \* what each call met, in call order
    tc_result              \* the transcript returned

tc_vars ==
    <<tpc, chunk_paths, ti, chunk_transcriptions, accumulated_context, calls,
      outcomes, tc_result>>

\* The most segments of a run.
MaxChunks == 3

\* The streams the service answers with: nothing, one chunk of text, and
\* text in chunks, one of them without content, ending in a no-break space.
Streams ==
    { <<>>,
      << <<"h", "i">> >>,
      << <<"o">>, <<>>, <<"k", "U+00A0">> >> }

\* What the awaited request can end with.
ServiceOutcomes ==
    {[kind |-> "timeout"], [kind |-> "error"]}
        \cup {[kind |-> "completed", deltas |-> d] : d \in Streams}

Unreadable == [kind |-> "unreadable"]

VoiceFile == <<"v", ".", "o", "g", "g">>

\* The segment lists chunk_audio returns: the source alone, or the
\* numbered scratch files.
SegmentLists ==
    {<<DownloadPath(VoiceFile)>>}
        \cup {[k \in 1..n |-> ChunkPath(k - 1)] : n \in 2..MaxChunks}

HOff ==
    /\ files = <<>>
    /\ temp_dir = FALSE
    /\ writers = <<>>
    /\ hs = <<>>

SegOff ==
    /\ spc = "off"
    /\ s_audio_path = <<>>
    /\ s_source = <<>>
    /\ s_fault = <<>>
    /\ s_result = <<>>

AsmOff ==
    /\ apc = "off"
    /\ full_transcription = <<>>
    /\ text_chunks = <<>>
    /\ messages = <<>>
    /\ sent = <<>>

TcOff ==
    /\ tpc = "off"
    /\ chunk_paths = <<>>
    /\ ti = 0
    /\ chunk_transcriptions = <<>>
    /\ accumulated_context = <<>>
    /\ calls = <<>>
    /\ outcomes = <<>>
    /\ tc_result = <<>>

TcInit ==
    /\ AsmOff
    /\ HOff
    /\ SegOff
    /\ tpc = "call"
    /\ chunk_paths \in SegmentLists
    /\ ti = 0
    /\ chunk_transcriptions = <<>>
    /\ accumulated_context = <<>>
    /\ calls = <<>>
    /\ outcomes = <<>>
    /\ tc_result = <<>>

total_chunks == Len(chunk_paths)

\* The arguments of the call of line 208 or of lines 217-224, with the
\* prompt line 143 builds from them when built is true (None: no prompt).
CallArgs(built) ==
    LET previous_context ==
            IF total_chunks = 1 THEN None
            ELSE ContextArg(accumulated_context)
    IN  [audio_path |-> chunk_paths[ti + 1],
         chunk_index |-> ti,
         total_chunks |-> total_chunks,
         previous_context |-> previous_context,
         prompt |-> IF built
                    THEN build_chunk_prompt(ti, total_chunks, previous_context)
                    ELSE None]

\* AfterCall going back to a segment whose request timed out.
AfterCallRetry(o) ==
    LET st == LoopBody([chunk_transcriptions |-> chunk_transcriptions,
                        accumulated_context |-> accumulated_context], ti, o)
    IN  IF o.kind = "timeout"
        THEN UNCHANGED <<chunk_transcriptions, accumulated_context, ti>>
        ELSE /\ chunk_transcriptions' = st.chunk_transcriptions
             /\ accumulated_context' = st.accumulated_context
             /\ ti' = ti + 1

\* The loop step for what the call met.
AfterCall(o) ==
    LET st == LoopBody([chunk_transcriptions |-> chunk_transcriptions,
                        accumulated_context |-> accumulated_context], ti, o)
    IN  /\ chunk_transcriptions' = st.chunk_transcriptions
        /\ accumulated_context' = st.accumulated_context
        /\ ti' = ti + 1

\* transcribe is called, reads the segment and sends the request
\* (lines 142-149).
CallTranscribe ==
    /\ UNCHANGED <<asm_vars, h_vars, seg_vars>>
    /\ tpc = "call"
    /\ ti < total_chunks
    /\ calls' = Append(calls, CallArgs(TRUE))
    /\ tpc' = "await"
    /\ UNCHANGED <<chunk_paths, ti, chunk_transcriptions, accumulated_context,
                   outcomes, tc_result>>

\* transcribe is called and the segment cannot be read: line 142 raises,
\* into the except of line 240 or, from line 208, out of the run.
CallUnreadable ==
    /\ UNCHANGED <<asm_vars, h_vars, seg_vars>>
    /\ tpc = "call"
    /\ ti < total_chunks
    /\ calls' = Append(calls, CallArgs(FALSE))
    /\ outcomes' = Append(outcomes, Unreadable)
    /\ IF total_chunks = 1
       THEN /\ tpc' = "raised"
            /\ UNCHANGED <<ti, chunk_transcriptions, accumulated_context>>
       ELSE /\ tpc' = "call"
            /\ AfterCall(Unreadable)
    /\ UNCHANGED <<chunk_paths, tc_result>>

\* The awaited request ends with o (lines 172-185) and the caller goes
\* on: line 208 returns, or lines 226-238 record the result.
Respond(o) ==
    /\ UNCHANGED <<asm_vars, h_vars, seg_vars>>
    /\ tpc = "await"
    /\ outcomes' = Append(outcomes, o)
    /\ IF total_chunks = 1
       THEN /\ tpc' = "done"
            /\ tc_result' = transcribe(o).value
            /\ UNCHANGED <<ti, chunk_transcriptions, accumulated_context>>
       ELSE /\ tpc' = "call"
            /\ AfterCall(o)
            /\ UNCHANGED tc_result
    /\ UNCHANGED <<chunk_paths, calls>>

\* The loop is over: lines 245-256.
CombineAll ==
    /\ UNCHANGED <<asm_vars, h_vars, seg_vars>>
    /\ tpc = "call"
    /\ ti = total_chunks
    /\ tc_result' = Combine(chunk_transcriptions, total_chunks)
    /\ tpc' = "done"
    /\ UNCHANGED <<chunk_paths, ti, chunk_transcriptions, accumulated_context,
                   calls, outcomes>>

TcNext ==
    \/ CallTranscribe
    \/ CallUnreadable
    \/ \E o \in ServiceOutcomes : Respond(o)
    \/ CombineAll

\* ------------------------------------------------ delivery of a transcript
\* on_message from line 88 on, for the transcript transcribe_chunks
\* returned: a step ends where the code awaits channel.send.


\* The most segments of a delivered transcript's run.
MaxParts == 3

\* The texts of the segments of a delivered transcript: one that, with its
\* label, fills a message together with a labelled timeout marker, and
\* ends in a carriage return; with their labels, one as long as a message
\* and one longer, ending in an ideographic space; whitespace alone; and one
\* with a marker inside whose first number is an Arabic-Indic digit.
LongStreams ==
    { << Rep("a", 1964), <<"\r">> >>,
      << Rep("a", 1994) >>,
      << Rep("b", 2500), <<"U+3000">> >>,
      << Rep(" ", 2001) >>,
      << Rep("c", 600), <<"(", "U+0663", "/", "9", ")">>, Rep("d", 1396) >> }

LongOutcomes ==
    {[kind |-> "timeout"]}
        \cup {[kind |-> "completed", deltas |-> d] : d \in LongStreams}

\* The sequences of length 1..n over S.
SeqsUpTo(S, n) == UNION {[1..k -> S] : k \in 1..n}

AsmInit ==
    /\ TcOff
    /\ HOff
    /\ SegOff
    /\ apc = "split"
    /\ \E os \in SeqsUpTo(LongOutcomes, MaxParts) :
           full_transcription = transcribe_chunks(os).value
    /\ text_chunks = <<>>
    /\ messages = <<>>
    /\ sent = <<>>

\* Lines 89-144: the transcript is longer than the limit and is split.
Split ==
    /\ UNCHANGED <<tc_vars, h_vars, seg_vars>>
    /\ apc = "split"
    /\ Len(full_transcription) > DiscordLimit
    /\ text_chunks' = SplitChunks(full_transcription)
    /\ messages' = PackMessages(text_chunks', full_transcription)
    /\ apc' = "send"
    /\ UNCHANGED <<full_transcription, sent>>

\* Lines 147-148: the next unit is sent.
SendPart ==
    /\ UNCHANGED <<tc_vars, h_vars, seg_vars>>
    /\ apc = "send"
    /\ Len(sent) < Len(messages)
    /\ sent' = Append(sent, Fenced(messages[Len(sent) + 1]))
    /\ apc' = IF Len(sent) + 1 = Len(messages) THEN "done" ELSE "send"
    /\ UNCHANGED <<full_transcription, text_chunks, messages>>

\* Lines 149-151: the transcript fits and is sent whole.
SendWhole ==
    /\ UNCHANGED <<tc_vars, h_vars, seg_vars>>
    /\ apc = "split"
    /\ Len(full_transcription) <= DiscordLimit
    /\ sent' = <<Fenced(full_transcription)>>
    /\ apc' = "done"
    /\ UNCHANGED <<full_transcription, text_chunks, messages>>

AsmNext == Split \/ SendPart \/ SendWhole

vars == <<tc_vars, asm_vars, h_vars, seg_vars>>

SpecChunks == TcInit /\ [][TcNext]_vars

SpecAssemble == AsmInit /\ [][AsmNext]_vars

\* ------------------------------------------------- on_message handlers
\* discord_bot.py lines 30-158 for messages that arrive while others are
\* handled: every handler is a task of one event loop, and a step of a
\* handler runs from one await to the next. The transcript's record
\* (lines 68-78) is left out.

\* The handlers that run together.
NumHandlers == 2

Handlers == 1..NumHandlers

\* The default of chunk_audio's chunk_length_s, audio_utils.py line 31.
chunk_length_s == 20

OtherFile == <<"w", ".", "m", "p", "3">>

\* The audio attachments of the messages: one with the name every voice
\* message has, 20.001 s long, and a file of 15 s.
Attachments ==
    { [filename |-> VoiceFile, ms |-> 20001, audio |-> TRUE],
      [filename |-> OtherFile, ms |-> 15000, audio |-> TRUE] }

NoteFile == <<"n", ".", "t", "x", "t">>

\* An attachment whose content_type does not start with "audio/".
NoAudio == [filename |-> NoteFile, ms |-> 0, audio |-> FALSE]

\* The most attachments of a message.
MaxAttachments == 2

\* message.attachments of the messages: up to MaxAttachments attachments,
\* audio or not.
AttachmentLists ==
    UNION {[1..n -> Attachments \cup {NoAudio}] : n \in 1..MaxAttachments}

\* The index of the first audio attachment of as from index from on
\* (lines 52-54), Len(as) + 1 when there is none.
NextAudio(as, from) ==
    IF \E k \in from..Len(as) : as[k].audio
    THEN CHOOSE k \in from..Len(as) :
             as[k].audio /\ \A j \in from..(k - 1) : ~as[j].audio
    ELSE Len(as) + 1

\* len(range(0, ms, step))
RangeLen(ms, step) == (ms + step - 1) \div step

ScratchPaths ==
    UNION {{ChunkPath(i) :
                i \in 0..(RangeLen(a.ms, chunk_length_s * 1000) - 1)} :
            a \in Attachments}

AllPaths == {DownloadPath(a.filename) : a \in Attachments} \cup ScratchPaths

\* What a file holds: the audio of handler src's attachment, whole
\* (part -1) or its segment part, ms milliseconds of it from start on.
Absent == [src |-> 0, part |-> 0, start |-> 0, ms |-> 0]

\* What the service answers a handler's request with: a text. (The
\* other outcomes of a request are those of the run of transcribe_chunks
\* on its own.)
HandlerOutcomes ==
    {[kind |-> "completed", deltas |-> << <<"h", "i">> >>]}

\* Where a call of chunk_audio meets an exception: nowhere, in the
\* decoding of lines 57-69, in os.makedirs (line 85), or in the export of
\* segment i (line 96).
NoFault == [at |-> "none"]

DecodeFault == [at |-> "decode"]

MakedirsFault == [at |-> "makedirs"]

ExportFault(i) == [at |-> "export", i |-> i]

\* Segment with every slice as long as chunk_length_ms.
SegmentUnclipped(audio, i, chunk_length_ms) ==
    [src |-> audio.src,
     part |-> i,
     start |-> audio.start + i * chunk_length_ms,
     ms |-> chunk_length_ms]

\* audio[start_ms : start_ms + chunk_length_ms] of line 90, exported.
Segment(audio, i, chunk_length_ms) ==
    LET start_ms == i * chunk_length_ms
    IN  [src |-> audio.src,
         part |-> i,
         start |-> audio.start + start_ms,
         ms |-> IF audio.ms - start_ms < chunk_length_ms
                THEN audio.ms - start_ms
                ELSE chunk_length_ms]

\* The files fs after the segments 0..(m - 1) of audio are exported.
Exported(fs, audio, m, chunk_length_ms) ==
    [p \in DOMAIN fs |->
        IF \E i \in 0..(m - 1) : p = ChunkPath(i)
        THEN Segment(audio, CHOOSE j \in 0..(m - 1) : p = ChunkPath(j),
                     chunk_length_ms)
        ELSE fs[p]]

\* Fallback returning the segments exported before the exception.
FallbackPartial(fs, dir, audio_path, m) ==
    [files |-> fs, dir |-> dir,
     chunks |-> IF m = 0 THEN <<audio_path>>
                ELSE [k \in 1..m |-> ChunkPath(k - 1)],
     written |-> {ChunkPath(i) : i \in 0..(m - 1)},
     failed |-> TRUE, raised |-> FALSE]

\* The except branch of lines 101-106: the source alone.
Fallback(fs, dir, audio_path, m) ==
    [files |-> fs, dir |-> dir, chunks |-> <<audio_path>>,
     written |-> {ChunkPath(i) : i \in 0..(m - 1)},
     failed |-> TRUE, raised |-> FALSE]

\* What chunk_audio meets in a handler: nothing, or a failing export of
\* the second segment.
HandlerFaults == {NoFault, ExportFault(1)}

\* The reply of lines 156-158.
ErrorReply ==
    <<"S", "o", "r", "r", "y", ",", " ", "t", "h", "e", "r", "e", " ", "w",
      "a", "s", " ", "a", "n", " ", "e", "r", "r", "o", "r", " ", "p", "r",
      "o", "c", "e", "s", "s", "i", "n", "g", " ", "t", "h", "e", " ", "a",
      "u", "d", "i", "o", " ", "f", "i", "l", "e", ".">>

\* chunk_audio(audio_path), audio_utils.py lines 52-106, on the files fs
\* with temp_chunks there or not (dir), meeting fault: the files and the
\* directory after it, the segment list it returns, the scratch files it
\* wrote, whether it went through its except branch and whether an
\* exception left it.
chunk_audio(fs, dir, audio_path, fault) ==
    LET audio == fs[audio_path]
        chunk_length_ms == chunk_length_s * 1000
        n == RangeLen(audio.ms, chunk_length_ms)
    IN  IF audio = Absent \/ fault.at = "decode"
        THEN Fallback(fs, dir, audio_path, 0)
        ELSE IF audio.ms <= chunk_length_s * 1000
        THEN [files |-> fs, dir |-> dir, chunks |-> <<audio_path>>,
              written |-> {}, failed |-> FALSE, raised |-> FALSE]
        ELSE IF ~dir /\ fault.at = "makedirs"
        THEN Fallback(fs, dir, audio_path, 0)
        ELSE IF fault.at = "export" /\ fault.i < n
        THEN Fallback(Exported(fs, audio, fault.i, chunk_length_ms), TRUE,
                      audio_path, fault.i)
        ELSE [files |-> Exported(fs, audio, n, chunk_length_ms),
              dir |-> TRUE,
              chunks |-> [k \in 1..n |-> ChunkPath(k - 1)],
              written |-> {ChunkPath(i) : i \in 0..(n - 1)},
              failed |-> FALSE, raised |-> FALSE]

\* ------------------------------------------------- one call of chunk_audio

\* The most segments of a source.
MaxSegments == 3

\* The durations of the sources, in ms: around every multiple of the
\* segment length.
Durations ==
    {1} \cup UNION {{k * chunk_length_s * 1000 - 1,
                     k * chunk_length_s * 1000,
                     k * chunk_length_s * 1000 + 1} : k \in 1..MaxSegments}

Faults ==
    {NoFault, DecodeFault, MakedirsFault}
        \cup {ExportFault(i) : i \in 0..(MaxSegments - 1)}

SegPaths ==
    {DownloadPath(VoiceFile)} \cup {ChunkPath(i) : i \in 0..(MaxSegments - 1)}

\* The sources: audio of every duration of at most MaxSegments segments,
\* and no file at all.
Sources ==
    {Absent} \cup {[src |-> 1, part |-> -1, start |-> 0, ms |-> d] :
                      d \in {x \in Durations :
                                x <= MaxSegments * chunk_length_s * 1000}}

SegInit ==
    /\ TcOff
    /\ AsmOff
    /\ hs = <<>>
    /\ writers = <<>>
    /\ spc = "call"
    /\ s_audio_path = DownloadPath(VoiceFile)
    /\ s_source \in Sources
    /\ s_fault \in Faults
    /\ s_result = <<>>
    /\ temp_dir \in BOOLEAN
    /\ files = [p \in SegPaths |->
                   IF p = s_audio_path THEN s_source ELSE Absent]

\* chunks = chunk_audio(audio_path), discord_bot.py line 63.
ChunkAudio ==
    /\ UNCHANGED <<tc_vars, asm_vars>>
    /\ spc = "call"
    /\ LET ca == chunk_audio(files, temp_dir, s_audio_path, s_fault)
       IN  /\ files' = ca.files
           /\ temp_dir' = ca.dir
           /\ s_result' = [chunks |-> ca.chunks, failed |-> ca.failed,
                           raised |-> ca.raised]
    /\ spc' = "returned"
    /\ UNCHANGED <<writers, hs, s_audio_path, s_source, s_fault>>

SegNext == ChunkAudio

SpecSegment == SegInit /\ [][SegNext]_vars

\* Lines 81-86 of discord_bot.py: the files after the cleanup.
Cleanup(fs, dir, audio_path, chunks) ==
    [p \in DOMAIN fs |->
        IF p = audio_path THEN Absent
        ELSE IF dir /\ \E k \in 1..Len(chunks) : chunks[k] = p THEN Absent
        ELSE fs[p]]

\* The loop of transcriber.py lines 214-243 from segment i on, for as long
\* as the segment's file is missing: line 142 raises before any await and
\* line 243 records the segment.
RECURSIVE SkipUnreadable(_, _, _, _)
SkipUnreadable(st, i, chunks, fs) ==
    IF i < Len(chunks) /\ fs[chunks[i + 1]] = Absent
    THEN SkipUnreadable(LoopBody(st, i, Unreadable), i + 1, chunks, fs)
    ELSE [st |-> st, i |-> i]

\* A handler's frame before its message arrives: as its attachments, ai
\* the index of the one at work, replies what the handler did about each
\* audio attachment it was through with, sent what it gave to
\* channel.send.
Idle(as) ==
    [pc |-> "idle",
     attachments |-> as,
     ai |-> 0,
     audio_path |-> <<>>,
     chunks |-> <<>>,
     ti |-> 0,
     chunk_transcriptions |-> <<>>,
     accumulated_context |-> <<>>,
     reads |-> <<>>,
     full_transcription |-> <<>>,
     messages |-> <<>>,
     nsent |-> 0,
     replies |-> <<>>,
     sent |-> <<>>]

\* The for loop of line 52 goes on after attachment fr.ai, reply telling
\* how that one ended: to the await of attachment.save of the next audio
\* attachment (line 60), or to the end of on_message.
NextAttachment(fr, reply) ==
    LET k == NextAudio(fr.attachments, fr.ai + 1)
        replies == IF fr.ai = 0 THEN fr.replies
                   ELSE Append(fr.replies, [ai |-> fr.ai, reply |-> reply])
    IN  IF k <= Len(fr.attachments)
        THEN [fr EXCEPT !.pc = "save",
                        !.ai = k,
                        !.audio_path = DownloadPath(fr.attachments[k].filename),
                        !.chunks = <<>>,
                        !.ti = 0,
                        !.chunk_transcriptions = <<>>,
                        !.accumulated_context = <<>>,
                        !.reads = <<>>,
                        !.full_transcription = <<>>,
                        !.messages = <<>>,
                        !.nsent = 0,
                        !.replies = replies]
        ELSE [fr EXCEPT !.pc = "done", !.replies = replies]

HInit ==
    /\ TcOff
    /\ AsmOff
    /\ SegOff
    /\ files = [p \in AllPaths |-> Absent]
    /\ temp_dir = FALSE
    /\ writers = [p \in AllPaths |-> {}]
    /\ hs \in [Handlers -> {Idle(as) : as \in AttachmentLists}]

\* The run of transcribe_chunks is over with the transcript full. The
\* transcript is recorded (lines 68-78): when that raises (recorded
\* false), the except of line 153 gives its reply to channel.send; else
\* lines 80-86 clean up and the first unit is given to channel.send.
Finish(h, fr, full, recorded) ==
    IF recorded
    THEN /\ files' = Cleanup(files, temp_dir, fr.audio_path, fr.chunks)
         /\ hs' = [hs EXCEPT ![h] =
                      [fr EXCEPT !.pc = "send",
                                 !.full_transcription = full,
                                 !.messages = Units(full)]]
    ELSE /\ hs' = [hs EXCEPT ![h] =
                      [fr EXCEPT !.pc = "error",
                                 !.full_transcription = full]]
         /\ UNCHANGED files

\* transcribe_chunks goes on from fr.ti: to the next request, with the
\* segment read (line 142), or to the end of the run.
Continue(h, fr, recorded) ==
    IF Len(fr.chunks) = 1
    THEN /\ hs' = [hs EXCEPT ![h] =
                      IF files[fr.chunks[1]] = Absent
                      THEN [fr EXCEPT !.pc = "error"]
                      ELSE [fr EXCEPT !.pc = "api",
                                      !.reads = Append(@,
                                          [i |-> 0,
                                           data |-> files[fr.chunks[1]]])]]
         /\ UNCHANGED files
    ELSE LET r == SkipUnreadable(
                      [chunk_transcriptions |-> fr.chunk_transcriptions,
                       accumulated_context |-> fr.accumulated_context],
                      fr.ti, fr.chunks, files)
             fr2 == [fr EXCEPT
                         !.ti = r.i,
                         !.chunk_transcriptions = r.st.chunk_transcriptions,
                         !.accumulated_context = r.st.accumulated_context]
         IN  IF r.i < Len(fr.chunks)
             THEN /\ hs' = [hs EXCEPT ![h] =
                               [fr2 EXCEPT !.pc = "api",
                                           !.reads = Append(@,
                                               [i |-> r.i,
                                                data |-> files[fr.chunks[r.i + 1]]])]]
                  /\ UNCHANGED files
             ELSE Finish(h, fr2,
                         Combine(fr2.chunk_transcriptions, Len(fr2.chunks)),
                         recorded)

\* A message with attachments arrives in #fodder: lines 43-60, up to the
\* await of attachment.save for its first audio attachment.
Receive(h) ==
    /\ UNCHANGED <<tc_vars, asm_vars, seg_vars>>
    /\ hs[h].pc = "idle"
    /\ hs' = [hs EXCEPT ![h] = NextAttachment(@, "none")]
    /\ UNCHANGED <<files, temp_dir, writers>>

\* attachment.save ends with the file written; chunk_audio (line 63) cuts
\* it, meeting fault, and transcribe_chunks (line 66) sends its first
\* request.
Downloaded(h, fault) ==
    /\ UNCHANGED <<tc_vars, asm_vars, seg_vars>>
    /\ hs[h].pc = "save"
    /\ LET fr == hs[h]
           saved == [files EXCEPT ![fr.audio_path] =
                        [src |-> h, part |-> -1, start |-> 0,
                         ms |-> fr.attachments[fr.ai].ms]]
           ca == chunk_audio(saved, temp_dir, fr.audio_path, fault)
           fr2 == [fr EXCEPT !.chunks = ca.chunks, !.pc = "api",
                             !.reads = <<[i |-> 0, data |-> ca.files[ca.chunks[1]]]>>]
       IN  /\ files' = ca.files
           /\ temp_dir' = ca.dir
           /\ writers' = [p \in AllPaths |->
                             IF p = fr.audio_path \/ p \in ca.written
                             THEN writers[p] \cup {h} ELSE writers[p]]
           /\ hs' = [hs EXCEPT ![h] = fr2]

\* The awaited request of handler h ends with o: transcribe returns and
\* transcribe_chunks goes on; recorded: whether the transcript's record
\* can be written when the run ends here.
Answered(h, o, recorded) ==
    /\ UNCHANGED <<tc_vars, asm_vars, seg_vars>>
    /\ hs[h].pc = "api"
    /\ LET fr == hs[h]
       IN  IF Len(fr.chunks) = 1
           THEN Finish(h, fr, transcribe(o).value, recorded)
           ELSE LET st == LoopBody(
                        [chunk_transcriptions |-> fr.chunk_transcriptions,
                         accumulated_context |-> fr.accumulated_context],
                        fr.ti, o)
                IN  Continue(h, [fr EXCEPT
                        !.ti = fr.ti + 1,
                        !.chunk_transcriptions = st.chunk_transcriptions,
                        !.accumulated_context = st.accumulated_context],
                        recorded)
    /\ UNCHANGED <<temp_dir, writers>>

\* channel.send of the next unit ends (lines 147-151); after the last
\* unit the loop of line 52 goes on.
UnitSent(h) ==
    /\ UNCHANGED <<tc_vars, asm_vars, seg_vars>>
    /\ hs[h].pc = "send"
    /\ LET fr == hs[h]
           n == fr.nsent + 1
           fr2 == [fr EXCEPT !.sent = Append(@, Fenced(fr.messages[n])),
                             !.nsent = n]
       IN  hs' = [hs EXCEPT ![h] =
                     IF n = Len(fr.messages)
                     THEN NextAttachment(fr2, "delivered")
                     ELSE fr2]
    /\ UNCHANGED <<files, temp_dir, writers>>

\* channel.send of a unit raises: the except of line 153 gives its reply
\* to channel.send.
SendFailed(h) ==
    /\ UNCHANGED <<tc_vars, asm_vars, seg_vars>>
    /\ hs[h].pc = "send"
    /\ hs' = [hs EXCEPT ![h].pc = "error"]
    /\ UNCHANGED <<files, temp_dir, writers>>

\* channel.send of the reply of lines 156-158 ends, and the loop of line
\* 52 goes on.
ErrorSent(h) ==
    /\ UNCHANGED <<tc_vars, asm_vars, seg_vars>>
    /\ hs[h].pc = "error"
    /\ hs' = [hs EXCEPT ![h] =
                 NextAttachment([@ EXCEPT !.sent = Append(@, ErrorReply)],
                                "error")]
    /\ UNCHANGED <<files, temp_dir, writers>>

\* channel.send of the reply of lines 156-158 raises: the exception is
\* inside the except branch and leaves on_message.
ErrorSendFailed(h) ==
    /\ UNCHANGED <<tc_vars, asm_vars, seg_vars>>
    /\ hs[h].pc = "error"
    /\ hs' = [hs EXCEPT ![h].pc = "raised"]
    /\ UNCHANGED <<files, temp_dir, writers>>

HNext ==
    \/ \E h \in Handlers : Receive(h)
    \/ \E h \in Handlers : \E fault \in HandlerFaults : Downloaded(h, fault)
    \/ \E h \in Handlers : \E o \in HandlerOutcomes :
           \E recorded \in BOOLEAN : Answered(h, o, recorded)
    \/ \E h \in Handlers : UnitSent(h)
    \/ \E h \in Handlers : SendFailed(h)
    \/ \E h \in Handlers : ErrorSent(h)
    \/ \E h \in Handlers : ErrorSendFailed(h)

Spec == HInit /\ [][HNext]_vars

\* ------------------------------------------------ claims: transcriber

\* The outcome classes of the specification.
IsSuccess(o) == o.kind = "completed" /\ Concat(o.deltas) # <<>>

IsEmpty(o) == o.kind = "completed" /\ Concat(o.deltas) = <<>>

\* The texts of the Success outcomes of os, in order.
RECURSIVE SuccessTexts(_)
SuccessTexts(os) ==
    IF os = <<>> THEN <<>>
    ELSE (IF IsSuccess(Head(os)) THEN <<Concat(Head(os).deltas)>> ELSE <<>>)
         \o SuccessTexts(Tail(os))

\* The context a call was given, as text: none is the empty text.
ContextText(c) == IF c = None THEN <<>> ELSE c

\* C1: in a multi-segment run the context handed to the call for segment
\* k > 0 is the space-joined texts of the Success outcomes of the segments
\* before k, in order; no timeout, empty or failure marker is part of it.
C1_ContextIsSuccessTexts ==
    \A k \in 1..Len(calls) :
        (calls[k].total_chunks > 1 /\ calls[k].chunk_index > 0) =>
            ContextText(calls[k].previous_context)
                = JoinSp(SuccessTexts(SubSeq(outcomes, 1, k - 1)))

\* The labelled entries of a finished multi-segment run, from the
\* per-segment results.
LabelledEntries ==
    [k \in 1..Len(chunk_transcriptions) |->
        Label(k, total_chunks) \o <<" ">> \o chunk_transcriptions[k]]

\* C2: whatever the outcomes of a multi-segment run (an exception raised
\* while a segment is prepared among them), the run ends, every segment
\* 0..total_chunks-1 was handed to transcribe once and in order, and the
\* transcript is the total_chunks entries, the i-th prefixed "(i/total)",
\* joined by single spaces, without leading or trailing whitespace.
C2_AllSegmentsLabelled ==
    /\ total_chunks > 1 => tpc # "raised"
    /\ (tpc = "done" /\ total_chunks > 1) =>
        /\ Len(calls) = total_chunks
        /\ \A k \in 1..total_chunks :
               /\ calls[k].chunk_index = k - 1
               /\ calls[k].audio_path = chunk_paths[k]
        /\ Len(chunk_transcriptions) = total_chunks
        /\ tc_result = strip(JoinSp(LabelledEntries))
        /\ tc_result # <<>>
        /\ tc_result[1] \notin Whitespace
        /\ tc_result[Len(tc_result)] \notin Whitespace

\* A finished run of three segments: the first unreadable, the second
\* timed out, the third failed.
C2_Witness ==
    /\ tpc = "done"
    /\ total_chunks = 3
    /\ outcomes[1] = Unreadable
    /\ outcomes[2].kind = "timeout"
    /\ outcomes[3].kind = "error"

\* C3: in a multi-segment run a timeout of segment i is recorded as
\* "[Transcription timeout]", a failure of the inference call as
\* "[Error in chunk i]" and a call that ends without text as
\* "[Empty transcription for chunk i]"; a failure is never recorded with
\* the marker of an empty result.
C3_DistinctMarkers ==
    total_chunks > 1 =>
        \A k \in 1..Len(chunk_transcriptions) :
            /\ outcomes[k].kind = "timeout" =>
                   chunk_transcriptions[k] = TimeoutMarker
            /\ outcomes[k].kind = "error" =>
                   /\ chunk_transcriptions[k] = ErrorMarker(k - 1)
                   /\ chunk_transcriptions[k] # EmptyMarker(k - 1)
            /\ IsEmpty(outcomes[k]) =>
                   chunk_transcriptions[k] = EmptyMarker(k - 1)

\* C4: no run of transcribe_chunks over a non-empty segment list, of one
\* segment or more, ends with an exception: an unreadable segment, a
\* timeout, a service error and an empty response all end in a transcript.
C4_NeverRaises == tpc # "raised"

\* C13: a run of one segment whose call ends in a timeout, in a service
\* error or without text returns a placeholder, never the empty string.
C13_SingleRunMarksOutcome ==
    (tpc = "done" /\ total_chunks = 1 /\ ~IsSuccess(outcomes[1])) =>
        tc_result # <<>>

\* Whether the text sub occurs in s.
Contains(s, sub) ==
    \E p \in 1..(Len(s) - Len(sub) + 1) :
        SubSeq(s, p, p + Len(sub) - 1) = sub

FullContextLabel ==
    <<"F", "u", "l", "l", " ", "c", "o", "n", "t", "e", "x", "t">>

\* C14: in every run the call for segment 0 is made without context and
\* its prompt holds no 'Full context'; a run of one segment makes exactly
\* one call and its transcript starts with no "(i/total)" label.
C14_FirstCallHasNoContext ==
    /\ \A k \in 1..Len(calls) :
           calls[k].chunk_index = 0 =>
               /\ calls[k].previous_context = None
               /\ ~Contains(calls[k].prompt, FullContextLabel)
    /\ (tpc = "done" /\ total_chunks = 1) =>
           /\ Len(calls) = 1
           /\ ~MarkerAt(tc_result, 1)

\* A run of several segments whose last call was given context, the first
\* having succeeded.
C14_Witness ==
    /\ tpc = "done"
    /\ total_chunks > 1
    /\ IsSuccess(outcomes[1])
    /\ calls[1].prompt # None
    /\ Contains(calls[Len(calls)].prompt, FullContextLabel)

\* C15: in a run of several segments the requests are made in index
\* order, each segment once, at most one in flight; a request is made only
\* when the outcomes of all earlier segments are recorded and the context
\* holds them; no segment is asked for again after a timeout or an error.
C15_OneRequestAtATime ==
    total_chunks > 1 =>
        /\ \A k \in 1..Len(calls) : calls[k].chunk_index = k - 1
        /\ Len(calls) - Len(outcomes) \in {0, 1}
        /\ Len(calls) - Len(outcomes) = 1 <=> tpc = "await"
        /\ Len(chunk_transcriptions) = Len(outcomes)
        /\ tpc = "await" =>
               /\ ti = Len(calls) - 1
               /\ calls[Len(calls)].previous_context
                      = ContextArg(accumulated_context)

\* The third request is in flight after the second timed out.
C15_Witness ==
    /\ tpc = "await"
    /\ Len(calls) = 3
    /\ outcomes[2].kind = "timeout"

PartWord == <<"p", "a", "r", "t", " ">>

IsOnly(prompt) == prompt = OnlyPrompt

IsFirst(prompt) == Contains(prompt, FirstTail)

IsMiddle(prompt) == Contains(prompt, MiddleTail)

IsLast(prompt) == Contains(prompt, ListeningFinal)

NamesPart(prompt, n, t) == Contains(prompt, PartWord \o PartOf(n, t))

\* C16: the prompt of every call is of exactly one kind: Only iff
\* total_chunks = 1, First iff chunk_index = 0 of several, Last iff
\* chunk_index = total_chunks - 1 of several, Middle otherwise; First and
\* Middle name part (chunk_index + 1)/total_chunks, Last names part N/N iff
\* total_chunks > 2 and names no part iff total_chunks = 2.
C16_PromptVariant ==
    \A k \in 1..Len(calls) :
        calls[k].prompt # None =>
            LET prompt == calls[k].prompt
                i == calls[k].chunk_index
                t == calls[k].total_chunks
                first == i = 0 /\ t > 1
                last == i = t - 1 /\ t > 1
            IN  /\ IsOnly(prompt) <=> t = 1
                /\ IsFirst(prompt) <=> first
                /\ IsLast(prompt) <=> last
                /\ IsMiddle(prompt) <=> (t > 1 /\ ~first /\ ~last)
                /\ (first \/ (t > 1 /\ ~last)) => NamesPart(prompt, i + 1, t)
                /\ last => /\ NamesPart(prompt, t, t) <=> t > 2
                           /\ ~Contains(prompt, PartWord) <=> t = 2

\* A run of three segments with all three prompts built.
C16_Witness ==
    /\ tpc = "done"
    /\ total_chunks = 3
    /\ \A k \in 1..3 : calls[k].prompt # None

\* The text of prompt after "Full context: ".
EmbeddedContext(prompt) ==
    LET label == FullContextLabel \o <<":", " ">>
        at == CHOOSE p \in 1..Len(prompt) :
                  /\ SubSeq(prompt, p, p + Len(label) - 1) = label
                  /\ \A q \in 1..(p - 1) :
                         SubSeq(prompt, q, q + Len(label) - 1) # label
    IN  SubSeq(prompt, at + Len(label), Len(prompt))

\* C20: the prompt of every Middle or Last segment holds, after 'Full
\* context:', exactly the context accumulated at that point, the empty
\* text when no earlier segment gave any.
C20_PromptEmbedsContext ==
    \A k \in 1..Len(calls) :
        (calls[k].chunk_index > 0 /\ calls[k].prompt # None) =>
            EmbeddedContext(calls[k].prompt)
                = ContextText(calls[k].previous_context)

\* ---------------------------------------------------- claims: handlers

\* C5: with on_message handlers running together, no scratch segment file
\* is written by more than one run, and every call of a run for its segment
\* i reads the audio that the same run's chunk_audio made for segment i
\* (for a run of one segment, the download of that run).
C5_NoSharedScratch ==
    /\ \A p \in ScratchPaths : Cardinality(writers[p]) <= 1
    /\ \A h \in Handlers : \A k \in 1..Len(hs[h].reads) :
           LET r == hs[h].reads[k]
           IN  /\ r.data.src = h
               /\ r.data.part = IF Len(hs[h].chunks) = 1 THEN -1 ELSE r.i

\* C18: with on_message handlers running together, the cleanup of one
\* run removes only files of that run: no segment file that another run
\* still has to read for a call to come is missing before that call.
C18_PendingSegmentsKept ==
    \A h \in Handlers :
        hs[h].pc = "api" =>
            \A k \in (hs[h].ti + 2)..Len(hs[h].chunks) :
                files[hs[h].chunks[k]] # Absent

\* C19: when a handler is through with its attachment, on every path, the
\* download and every segment file written for that attachment are gone.
C19_NothingLeftBehind ==
    \A h \in Handlers :
        hs[h].pc = "done" =>
            \A p \in AllPaths : h \in writers[p] => files[p].src # h

\* The indices of the audio attachments of as.
AudioIndices(as) == {k \in 1..Len(as) : as[k].audio}

\* C21: the audio attachments of a message are handled one after another
\* in list order, and an exception in the handling of one gives an error
\* reply for that one only: when on_message is over, every audio
\* attachment, also every one after an attachment that met an exception,
\* was handled and got its transcript or its error reply.
C21_EveryAttachmentHandled ==
    \A h \in Handlers :
        hs[h].pc \in {"done", "raised"} =>
            LET as == hs[h].attachments
                replies == hs[h].replies
            IN  /\ {replies[j].ai : j \in 1..Len(replies)} = AudioIndices(as)
                /\ \A j \in 1..(Len(replies) - 1) :
                       replies[j].ai < replies[j + 1].ai
                /\ \A j \in 1..Len(replies) :
                       replies[j].reply \in {"delivered", "error"}

\* -------------------------------------------------- claims: assembler

\* The unit a sent message wraps.
Unfenced(m) == SubSeq(m, 5, Len(m) - 4)

\* The units delivered so far.
Delivered == [k \in 1..Len(sent) |-> Unfenced(sent[k])]

\* The transcript was longer than the limit and has been split.
WasSplit == apc \in {"send", "done"} /\ Len(full_transcription) > DiscordLimit

\* The fragments of the transcript and their lengths.
Fragments == text_chunks

FragmentLens == [k \in 1..Len(Fragments) |-> Len(Fragments[k])]

\* C6: the units of every transcript are each at most max_content_length
\* long, in the greedy packing, after a hard split with later fragments
\* joined to the last slice, and in the fallback without fragments; a
\* transcript of at most that length is delivered as one unit, itself.
C6_UnitsWithinLimit ==
    /\ \A k \in 1..Len(messages) : Len(messages[k]) <= max_content_length
    /\ apc = "done" =>
        /\ \A k \in 1..Len(Delivered) :
               Len(Delivered[k]) <= max_content_length
        /\ Len(full_transcription) <= max_content_length =>
               Delivered = <<full_transcription>>
        /\ Len(full_transcription) > max_content_length =>
               Delivered = messages

\* A short fragment, then one longer than a message, then a short one
\* joined to its last slice: all delivered.
C6_Witness ==
    /\ apc = "done"
    /\ Len(Fragments) = 3
    /\ Len(Fragments[2]) > max_content_length
    /\ Len(messages) = 3
    /\ Len(messages[2]) = max_content_length
    /\ Len(messages[3]) = Len(Fragments[2]) - max_content_length + 1
                              + Len(Fragments[3])

\* C7: every message given to channel.send, code fence included, is at
\* most 2000 characters long, on the single-message path and on the
\* multi-unit path.
C7_SentWithinLimit ==
    \A k \in 1..Len(sent) : Len(sent[k]) <= DiscordLimit

\* s without its whitespace characters, from index lo to index hi.
RECURSIVE NonWhitespace(_, _, _)
NonWhitespace(s, lo, hi) ==
    IF \A k \in lo..hi : s[k] \in Whitespace THEN <<>>
    ELSE IF \A k \in lo..hi : s[k] \notin Whitespace THEN SubSeq(s, lo, hi)
    ELSE LET mid == (lo + hi) \div 2
         IN  NonWhitespace(s, lo, mid) \o NonWhitespace(s, mid + 1, hi)

\* The content of s: its characters that are not whitespace, in order.
Content(s) == NonWhitespace(s, 1, Len(s))

\* The fragments fs one after another, with a space between fs[k] and
\* fs[k + 1] for the k of B.
RECURSIVE JoinAt(_, _, _)
JoinAt(fs, B, k) ==
    IF k > Len(fs) THEN <<>>
    ELSE fs[k] \o (IF k \in B THEN <<" ">> ELSE <<>>) \o JoinAt(fs, B, k + 1)

\* C8: for a transcript longer than max_content_length the units, one
\* after another, are the trimmed fragments of the transcript in order with
\* one space at the places where two fragments share a unit (the transcript
\* itself when it has no fragment), and they hold the characters of the
\* transcript that are not whitespace, none lost, doubled or moved.
C8_RoundTrip ==
    WasSplit =>
        /\ Content(Concat(messages)) = Content(full_transcription)
        /\ IF Fragments = <<>>
           THEN Concat(messages) = full_transcription
           ELSE \E B \in SUBSET (1..(Len(Fragments) - 1)) :
                    Concat(messages) = JoinAt(Fragments, B, 1)

\* A fragment longer than a message is cut and the next fragment joined to
\* its last slice.
C8_Witness ==
    /\ apc = "done"
    /\ Len(Fragments) = 2
    /\ Len(Fragments[1]) > max_content_length
    /\ Len(messages) = 2
    /\ Len(messages[2]) > Len(Fragments[2])

\* The packings of fragments of the lengths ls into units of at most
\* max_content_length, in order, a space between two fragments of a unit,
\* only a fragment longer than a unit cut: <<c, f>> is a packing of c
\* closed units and an open one of length f. A fragment longer than a unit
\* fills the open unit or starts a new one, and is cut into full units;
\* any other cut leaves as many units or more and an open unit as long or
\* longer.
StartUnit(c, l) ==
    IF l <= max_content_length THEN <<c, l>>
    ELSE LET q == (l - 1) \div max_content_length
         IN  <<c + q, l - q * max_content_length>>

NextPackings(S, l) ==
    UNION {
        {StartUnit(p[1] + 1, l)}
            \cup (IF l <= max_content_length
                  THEN (IF p[2] + 1 + l <= max_content_length
                        THEN {<<p[1], p[2] + 1 + l>>} ELSE {})
                  ELSE (IF p[2] + 1 < max_content_length
                        THEN {StartUnit(p[1] + 1,
                                  l - (max_content_length - p[2] - 1))}
                        ELSE {}))
        : p \in S }

RECURSIVE Packings(_, _)
Packings(ls, k) ==
    IF k = 1 THEN {StartUnit(0, ls[1])}
    ELSE NextPackings(Packings(ls, k - 1), ls[k])

\* The fewest units of a packing of fragments of the lengths ls.
MinUnits(ls) == MinOf({p[1] + 1 : p \in Packings(ls, Len(ls))})

\* C9 as stated: for a transcript longer than max_content_length with
\* fragments, the assembler yields the minimum number of units among the
\* order-preserving packings that cut only fragments longer than a unit,
\* also where such a fragment follows a partly filled unit.
C9_MinimumUnits ==
    (WasSplit /\ Fragments # <<>>) => Len(messages) = MinUnits(FragmentLens)

\* C9 as amended: when no fragment is longer than max_content_length, the
\* assembler yields the minimum number of units among the order-preserving
\* packings of the whole fragments.
C9_MinimumUnitsWhenAllFit ==
    (/\ WasSplit
     /\ Fragments # <<>>
     /\ \A k \in 1..Len(Fragments) : Len(Fragments[k]) <= max_content_length)
        => Len(messages) = MinUnits(FragmentLens)

\* Three fragments that each fit, two of them sharing the first unit.
C9_Witness ==
    /\ apc = "done"
    /\ Len(Fragments) = 3
    /\ \A k \in 1..3 : Len(Fragments[k]) <= max_content_length
    /\ Len(messages) = 2
    /\ Len(messages[1]) = Len(Fragments[1]) + 1 + Len(Fragments[2])

\* Unit u holds piece at its start or right after a joining space.
Holds(u, piece) ==
    \E p \in 1..(Len(u) - Len(piece) + 1) :
        /\ (p = 1 \/ u[p - 1] = " ")
        /\ SubSeq(u, p, p + Len(piece) - 1) = piece

\* The first characters of fragment f that a unit can hold.
FragmentHead(f) ==
    SubSeq(f, 1, IF Len(f) < max_content_length THEN Len(f)
                 ELSE max_content_length)

\* The marker fragment f starts with and the two characters after it.
MarkerAndText(f) ==
    LET e == DigitsEnd(f, DigitsEnd(f, 2) + 1)
    IN  SubSeq(f, 1, IF e + 2 < Len(f) THEN e + 2 ELSE Len(f))

\* Unit u starts with a later slice of a fragment longer than a unit.
IsContinuation(u) ==
    \E k \in 1..Len(Fragments) :
        /\ Len(Fragments[k]) > max_content_length
        /\ LET sl == Slices(Fragments[k], max_content_length)
           IN  \E j \in 2..Len(sl) :
                   /\ Len(u) >= Len(sl[j])
                   /\ SubSeq(u, 1, Len(sl[j])) = sl[j]

\* Unit u starts where a fragment starts.
StartsFragment(u) ==
    \E k \in 1..Len(Fragments) :
        /\ Len(u) >= Len(FragmentHead(Fragments[k]))
        /\ SubSeq(u, 1, Len(FragmentHead(Fragments[k])))
               = FragmentHead(Fragments[k])

\* Every fragment that fits is whole in one unit, and no marker is cut
\* from the start of the text after it.
FragmentsKeptWhole ==
    \A k \in 1..Len(Fragments) :
        /\ Len(Fragments[k]) <= max_content_length =>
               \E j \in 1..Len(messages) : Holds(messages[j], Fragments[k])
        /\ MarkerAt(Fragments[k], 1) =>
               \E j \in 1..Len(messages) :
                   Holds(messages[j], MarkerAndText(Fragments[k]))

\* C10 as stated: every fragment of at most max_content_length is whole in
\* one unit, no marker is separated from the start of the text after it,
\* and every unit starts at a numbering marker or as a continuation slice
\* of a fragment longer than max_content_length.
C10_UnitsStartAtMarkers ==
    (WasSplit /\ Fragments # <<>>) =>
        /\ FragmentsKeptWhole
        /\ \A j \in 1..Len(messages) :
               MarkerAt(messages[j], 1) \/ IsContinuation(messages[j])

\* C10 as amended: the same, every unit starting at the start of a fragment
\* (a numbering marker, or the start of the transcript when it does not
\* begin with a marker) or as a continuation slice.
C10_UnitsStartAtFragments ==
    (WasSplit /\ Fragments # <<>>) =>
        /\ FragmentsKeptWhole
        /\ \A j \in 1..Len(messages) :
               StartsFragment(messages[j]) \/ IsContinuation(messages[j])

\* Three fragments that fit, the first two filling the first unit to the
\* last character.
C10_Witness ==
    /\ apc = "done"
    /\ Len(Fragments) = 3
    /\ Len(messages) = 2
    /\ Len(messages[1]) = max_content_length
    /\ Len(messages[1]) = Len(Fragments[1]) + 1 + Len(Fragments[2])
    /\ messages[2] = Fragments[3]

\* Whether a numbering marker starts anywhere in s.
HasMarker(s) == \E p \in 1..Len(s) : MarkerAt(s, p)

\* C17 as stated: a transcript longer than max_content_length without any
\* numbering marker is delivered as its consecutive slices of
\* max_content_length characters, in order.
C17_SlicesOfTranscript ==
    (WasSplit /\ ~HasMarker(full_transcription)) =>
        messages = Slices(full_transcription, max_content_length)

\* C17 as amended: the slices are those of the transcript without its
\* leading and trailing whitespace, and of the whole transcript when it
\* is whitespace alone.
C17_SlicesOfStrippedTranscript ==
    (WasSplit /\ ~HasMarker(full_transcription)) =>
        messages = Slices(IF strip(full_transcription) # <<>>
                          THEN strip(full_transcription)
                          ELSE full_transcription,
                          max_content_length)

\* A transcript without marker that ends in whitespace, in two units.
C17_Witness ==
    /\ apc = "done"
    /\ WasSplit
    /\ ~HasMarker(full_transcription)
    /\ strip(full_transcription) # full_transcription
    /\ Len(messages) = 2
    /\ Len(messages[2]) = Len(full_transcription) - 1 - max_content_length

\* -------------------------------------------------- claims: segmenter

\* The segments a call returned, as the files hold them.
ReturnedSegments == [k \in 1..Len(s_result.chunks) |-> files[s_result.chunks[k]]]

\* C11: a call of chunk_audio that meets no exception returns the source
\* path alone when the duration is at most chunk_length_s, and otherwise
\* ceil(duration / chunk_length_s) segments, at least 2, that cover the
\* source from 0 to its duration in order, each starting where the one
\* before ends, all but the last chunk_length_s long, the lengths summing
\* to the duration.
C11_SegmentsPartitionSource ==
    (spc = "returned" /\ ~s_result.failed) =>
        LET D == s_source.ms
            L == chunk_length_s * 1000
            n == Len(s_result.chunks)
            seg == ReturnedSegments
        IN  IF D <= L
            THEN s_result.chunks = <<s_audio_path>>
            ELSE /\ n >= 2
                 /\ (n - 1) * L < D
                 /\ D <= n * L
                 /\ \A k \in 1..n : s_result.chunks[k] = ChunkPath(k - 1)
                 /\ \A k \in 1..n : seg[k].src = s_source.src /\ seg[k].part = k - 1
                 /\ seg[1].start = 0
                 /\ \A k \in 1..(n - 1) :
                        /\ seg[k].ms = L
                        /\ seg[k + 1].start = seg[k].start + seg[k].ms
                 /\ seg[n].ms > 0
                 /\ seg[n].ms <= L
                 /\ seg[n].start + seg[n].ms = D

\* A source one millisecond longer than two segments: three segments.
C11_Witness ==
    /\ spc = "returned"
    /\ ~s_result.failed
    /\ s_source.ms = 2 * chunk_length_s * 1000 + 1
    /\ Len(s_result.chunks) = 3
    /\ files[ChunkPath(2)].ms = 1

\* C12: a call of chunk_audio that meets an exception, in decoding, in
\* making the directory or in an export, before or after segments were
\* written, raises nothing and returns exactly the source path, the source
\* as it was.
C12_FailureReturnsSource ==
    (spc = "returned" /\ s_result.failed) =>
        /\ ~s_result.raised
        /\ s_result.chunks = <<s_audio_path>>
        /\ files[s_audio_path] = s_source

\* The export of the second segment fails after the first was written.
C12_Witness ==
    /\ spc = "returned"
    /\ s_result.failed
    /\ s_fault = ExportFault(1)
    /\ files[ChunkPath(0)] # Absent
    /\ files[ChunkPath(1)] = Absent

====
